---- MODULE Spec2Model ----
(***************************************************************************)
(* Credential lifecycle and request path of the Copilot proxy.             *)
(*                                                                         *)
(* src/src/services/auth-service.ts keeps five module variables            *)
(* (githubToken, copilotToken, pendingVerification, pendingAuth,           *)
(* tokenRefreshInterval) and two files.  Every exported function is one    *)
(* action up to its first await; what runs after an await (a promise       *)
(* callback of the device-flow handle, the answer of the token endpoint)   *)
(* is an action of its own, because other handlers run in between.         *)
(*                                                                         *)
(* The OAuth provider (createOAuthDeviceAuth) and the token endpoint are   *)
(* the environment.  A device-flow exchange e is "init" (device code       *)
(* asked), "pending" (verification delivered), "authorized" (a call of its *)
(* handle has returned the token), "expired" (a call has reported the code *)
(* expired) or "failed" (no device code was delivered).  Whether the user  *)
(* authorized a pending exchange or let its code run out is decided when a *)
(* call of the handle first reports it.  The token that e issues is e.     *)
(*                                                                         *)
(* clearedAt, expiredSince, superseded and followUps are history           *)
(* variables: no action reads them.  They are kept only in the behaviours  *)
(* of SpecObserved (observe = TRUE).                                       *)
(***************************************************************************)
EXTENDS Integers, FiniteSets, Sequences, TLC

\* ------------------------------------------------------------------ bounds
MaxNow == 1
MaxExchanges == 2
MaxInFlight == 1

\* ------------------------------------------------------- program constants
\* isTokenValid: "now < (copilotToken.expires_at - 5)"
ExpiryBuffer == 5

Exchanges == 1..MaxExchanges

\* copilotToken = null
NullToken == [set |-> FALSE, token |-> "", expires_at |-> 0]

\* expires_at of the bodies the token endpoint answers with: one that is
\* valid at now = 0 only, one that is valid up to MaxNow
ExpiresAtValues == {ExpiryBuffer + 1, ExpiryBuffer + MaxNow + 1}

\* a body whose expires_at is not a number (absent, null, a string)
NoExpiry == 0 - 1

\* response.json() as CopilotToken: the body is not validated, its token may
\* be the empty string and its expires_at may be missing
TokenBodies ==
    [set : {TRUE}, token : {"cpt"}, expires_at : ExpiresAtValues]
    \cup {[set |-> TRUE, token |-> "", expires_at |-> ExpiryBuffer + MaxNow + 1]}
    \cup {[set |-> TRUE, token |-> "cpt", expires_at |-> NoExpiry]}

\* "new Date(copilotToken.expires_at * 1000).toISOString()" throws a
\* RangeError when expires_at is not a number
LogsExpiry(tok) == tok.expires_at # NoExpiry

\* who awaits a refreshCopilotToken call: "background" is the interval
\* callback (line 99) or the then-callback of auth() (line 167), which only
\* log a failure
Owners == {"background", "poll", "request"}

VARIABLES
    now,                  \* Math.floor(Date.now() / 1000)
    githubToken,          \* 0 = null, e = the token exchange e issued, or EarlierToken
    copilotToken,         \* NullToken or a token body
    pendingVerification,  \* 0 = null, e = the verification data of exchange e
    pendingAuth,          \* 0 = null, e = the auth handle of exchange e
    tokenRefreshInterval, \* TRUE = the interval timer is armed
    githubFile,           \* github-token.json: 0 = absent
    copilotFile,          \* copilot-token.json: NullToken = absent
    xchg,                 \* provider side of each device-flow exchange
    own,                  \* own[e]: initiateDeviceFlow's auth() call of e is unsettled
    polls,                \* polls[e]: checkDeviceFlowAuth calls awaiting pendingAuth() of e
    refreshes,            \* refreshes[o]: refreshCopilotToken calls of owner o awaiting fetch
    lastEvent,            \* what the step just taken returned to its caller, or NoEvent
    clearedAt,            \* history: -1, or the number of exchanges when clearTokens ran
    expiredSince,         \* history: a poll saw "expired" and no initiate followed
    superseded,           \* history: exchanges unresolved when a later initiate ran
    followUps,            \* history: followUps[e] = refreshes triggered for e's token
    observe,              \* TRUE in the behaviours that keep the history variables
    req,                  \* the inbound POST /v1/messages being served
    endpoint,             \* the token endpoint, where SpecRefresh follows its answers
    disk                  \* the token directory: whether it can be written, and
                          \* what the stores and loads of this run met there

authVars == <<githubToken, copilotToken, pendingVerification, pendingAuth,
              tokenRefreshInterval, githubFile, copilotFile>>
envVars == <<xchg, own, polls, refreshes>>
histVars == <<clearedAt, expiredSince, superseded, followUps>>
vars == <<now, authVars, envVars, lastEvent, histVars, observe, req, endpoint, disk>>

\* a handler's result: what it returned (ret) and the branch that returned it
Ev(op, why, ret) == [op |-> op, why |-> why, ret |-> ret]
NoEvent == Ev("none", "none", "none")

\* a device-flow exchange nothing refers to any more (its auth() call has
\* settled, no poll awaits it, it is not the stored handle) is "done": no
\* handler can observe it again
Forget(x, o, p, pa) ==
    [e \in Exchanges |->
        IF x[e] # "none" /\ ~o[e] /\ p[e] = 0 /\ pa # e THEN "done" ELSE x[e]]

\* ------------------------------------------------------------- pure helpers
isTokenValid_NoBuffer(tok, t) ==
    /\ tok # NullToken
    /\ tok.token # ""
    /\ tok.expires_at # NoExpiry
    /\ t < tok.expires_at

\* isTokenValid(): false without a token record or with an empty token
\* string; a comparison with NaN is false
isTokenValid(tok, t) ==
    /\ tok # NullToken
    /\ tok.token # ""
    /\ tok.expires_at # NoExpiry
    /\ t < tok.expires_at - ExpiryBuffer

Authenticated_Negated(gh, tok, t) ==
    gh # 0 /\ tok # NullToken /\ ~isTokenValid(tok, t)

\* "githubToken && copilotToken && isTokenValid()"
Authenticated(gh, tok, t) ==
    gh # 0 /\ tok # NullToken /\ isTokenValid(tok, t)

Created == {e \in Exchanges : xchg[e] # "none"}
\* the calls awaiting a remote answer: polls awaiting the device-flow handle
\* and refreshes awaiting the token endpoint
InFlight(p, r) ==
    LET S[n \in 0..MaxExchanges] == IF n = 0 THEN 0 ELSE S[n - 1] + p[n]
    IN S[MaxExchanges] + r["background"] + r["poll"] + r["request"]

\* refreshCopilotToken() up to "await fetch": the caller has checked githubToken
StartRefresh(o) ==
    /\ refreshes' = [refreshes EXCEPT ![o] = @ + 1]

\* no request is being served; otherwise pc is "refresh" (requireAuth awaits
\* refreshCopilotToken) or "backend" (the handler awaits the chat completion)
NoRequest == [pc |-> "idle"]

\* the token files an earlier run of the proxy can have left: the GitHub
\* token an earlier device flow stored, a body the token endpoint returned;
\* either file can be missing without the other
EarlierToken == MaxExchanges + 1
GithubFiles == {0, EarlierToken}
CopilotFiles == {NullToken} \cup TokenBodies

\* a token file that cannot be read or whose content JSON.parse rejects (a
\* write cut short by a crash, a file edited by hand)
CorruptGithubFile == 0 - 1
CorruptCopilotFile == [set |-> FALSE, token |-> "not JSON", expires_at |-> 0]

\* loadPersistedTokens(), run by startServer before the server listens: what
\* it leaves in memory for the files gf and cf.  Logging the expiry of the
\* loaded copilotToken (lines 47-49) can throw; the catch (lines 56-58) then
\* skips startTokenAutoRefresh.  One try block holds both records: a throw
\* at the GitHub record (lines 35-36) leaves the Copilot record unread, a
\* throw at the Copilot record (lines 45-46) leaves copilotToken null
loadPersistedTokens(gf, cf) ==
    IF gf = CorruptGithubFile
    THEN [githubToken |-> 0, copilotToken |-> NullToken,
          tokenRefreshInterval |-> FALSE]
    ELSE IF cf = CorruptCopilotFile
    THEN [githubToken |-> gf, copilotToken |-> NullToken,
          tokenRefreshInterval |-> FALSE]
    ELSE [githubToken |-> gf,
          copilotToken |-> cf,
          tokenRefreshInterval |-> gf # 0 /\ (cf = NullToken \/ LogsExpiry(cf))]

\* the token directory after loadPersistedTokens() has read gf and cf: it can
\* be written, the latest values stored are those of the files (none is
\* known for a corrupt file), and a corrupt file is a failure of this run
DiskLoaded(gf, cf) ==
    LET corrupt == gf = CorruptGithubFile \/ cf = CorruptCopilotFile IN
        [writable |-> TRUE,
         failed |-> corrupt,
         lastFailed |-> IF corrupt THEN "read" ELSE "none",
         written |-> [github |-> IF gf = CorruptGithubFile THEN 0 ELSE gf,
                      copilot |-> IF cf = CorruptCopilotFile THEN NullToken ELSE cf]]

\* the module variables as declared (lines 16-21) and loadPersistedTokens()
LoadedFrom(githubFiles, copilotFiles) ==
    /\ now = 0
    /\ githubFile \in githubFiles
    /\ copilotFile \in copilotFiles
    /\ disk = DiskLoaded(githubFile, copilotFile)
    /\ LET m == loadPersistedTokens(githubFile, copilotFile) IN
        /\ githubToken = m.githubToken
        /\ copilotToken = m.copilotToken
        /\ tokenRefreshInterval = m.tokenRefreshInterval
    /\ pendingVerification = 0
    /\ pendingAuth = 0
    /\ xchg = [e \in Exchanges |-> "none"]
    /\ own = [e \in Exchanges |-> FALSE]
    /\ polls = [e \in Exchanges |-> 0]
    /\ refreshes = [o \in Owners |-> 0]
    /\ lastEvent = NoEvent
    /\ clearedAt = -1
    /\ expiredSince = FALSE
    /\ superseded = {}
    /\ followUps = [e \in Exchanges |-> 0]

InitLoaded == LoadedFrom(GithubFiles, CopilotFiles)

\* no refresh is followed through the token endpoint
NoEndpoint == [issued |-> 0, requests |-> 0, answers |-> <<>>]

Init ==
    /\ InitLoaded
    /\ req = NoRequest
    /\ observe = FALSE
    /\ endpoint = NoEndpoint

InitObserved ==
    /\ InitLoaded
    /\ req = NoRequest
    /\ observe = TRUE
    /\ endpoint = NoEndpoint

\* ------------------------------------------------------------------- clock
Tick ==
    /\ now < MaxNow
    /\ now' = now + 1
    /\ lastEvent' = NoEvent
    /\ UNCHANGED <<authVars, envVars, histVars, observe, endpoint, req, disk>>

\* ------------------------------------------------------- initiateDeviceFlow
\* lines 115-123: already authenticated, nothing is touched
initiateAuthenticated ==
    /\ Authenticated(githubToken, copilotToken, now)
    /\ lastEvent' = Ev("initiate", "authenticated", "authenticated")
    /\ UNCHANGED <<now, authVars, envVars, histVars, observe, endpoint, req, disk>>

\* lines 125-156: drop the stored handle and verification, create a new
\* handle, store it and call it; the promise stays pending
initiateDeviceFlow ==
    /\ ~Authenticated(githubToken, copilotToken, now)
    /\ Cardinality(Created) < MaxExchanges
    /\ LET e == Cardinality(Created) + 1 IN
        /\ pendingAuth' = e
        /\ pendingVerification' = 0
        /\ own' = [own EXCEPT ![e] = TRUE]
        /\ xchg' = Forget([xchg EXCEPT ![e] = "init"], own', polls, e)
        /\ superseded' = IF observe
                         THEN superseded \cup
                              {f \in Created :
                                  /\ xchg[f] \in {"init", "pending", "authorized"}
                                  /\ followUps[f] = 0}
                         ELSE superseded
    /\ expiredSince' = FALSE
    /\ lastEvent' = NoEvent
    /\ UNCHANGED <<now, githubToken, copilotToken, tokenRefreshInterval,
                   githubFile, copilotFile, polls, refreshes, clearedAt, followUps, observe, endpoint, req, disk>>

\* lines 134-149: the provider delivers the device code of exchange e;
\* onVerification stores it and resolves initiateDeviceFlow's promise
onVerification(e) ==
    /\ xchg[e] = "init"
    /\ own[e]
    /\ xchg' = [xchg EXCEPT ![e] = "pending"]
    /\ pendingVerification' = e
    /\ lastEvent' = Ev("initiate", "onVerification", "pending_verification")
    /\ UNCHANGED <<now, githubToken, copilotToken, pendingAuth,
                   tokenRefreshInterval, githubFile, copilotFile, own, polls,
                   refreshes, histVars, observe, endpoint, req, disk>>

\* ---------------------------------------------------------- the token files
saveGithubToken_NoWrite(token) ==
    /\ githubFile' = githubFile
    /\ disk' = [disk EXCEPT !.lastFailed = "none", !.written.github = token]

\* lines 64-71: writeFileSync of {token}; a throw is caught and logged
saveGithubToken(token) ==
    /\ githubFile' = IF disk.writable THEN token ELSE githubFile
    /\ disk' = [disk EXCEPT !.failed = @ \/ ~disk.writable,
                            !.lastFailed = IF disk.writable THEN "none" ELSE "github",
                            !.written.github = token]

\* lines 76-83: writeFileSync of the token body; a throw is caught and logged
saveCopilotToken(token) ==
    /\ copilotFile' = IF disk.writable THEN token ELSE copilotFile
    /\ disk' = [disk EXCEPT !.failed = @ \/ ~disk.writable,
                            !.lastFailed = IF disk.writable THEN "none" ELSE "copilot",
                            !.written.copilot = token]

StoreCopilotToken_PersistFirst(body) ==
    /\ copilotToken' = IF disk.writable THEN body ELSE copilotToken
    /\ saveCopilotToken(body)

\* lines 266-267: the body is assigned to copilotToken, then saved
StoreCopilotToken(body) ==
    /\ copilotToken' = body
    /\ saveCopilotToken(body)

\* lines 317-326: both files are unlinked in one try; the first unlink that
\* throws leaves both files where they are
deletePersistedTokens ==
    IF disk.writable \/ (githubFile = 0 /\ copilotFile = NullToken)
    THEN /\ githubFile' = 0
         /\ copilotFile' = NullToken
         /\ disk' = [disk EXCEPT !.lastFailed = "none",
                                 !.written = [github |-> 0, copilot |-> NullToken]]
    ELSE /\ UNCHANGED <<githubFile, copilotFile>>
         /\ disk' = [disk EXCEPT !.failed = TRUE, !.lastFailed = "unlink",
                                 !.written = [github |-> 0, copilot |-> NullToken]]

\* the token is stored: lines 159-165 and lines 204-212 are the same
\* statements (githubToken, saveGithubToken, pendingAuth, pendingVerification,
\* startTokenAutoRefresh)
StoreGithubToken(e) ==
    /\ githubToken' = e
    /\ saveGithubToken(e)
    /\ pendingAuth' = 0
    /\ pendingVerification' = 0
    /\ tokenRefreshInterval' = TRUE
    /\ followUps' = IF observe
                    THEN [followUps EXCEPT ![e] = IF @ < 2 THEN @ + 1 ELSE @]
                    ELSE followUps
    /\ clearedAt' = IF clearedAt >= 0 /\ e > clearedAt THEN -1 ELSE clearedAt

\* lines 156-170: auth() of exchange e resolves with a token
authThen(e) ==
    /\ own[e]
    /\ xchg[e] \in {"pending", "authorized"}
    /\ own' = [own EXCEPT ![e] = FALSE]
    /\ StoreGithubToken(e)
    /\ InFlight(polls, refreshes) < MaxInFlight
    /\ StartRefresh("background")
    /\ xchg' = Forget([xchg EXCEPT ![e] = "authorized"], own', polls, 0)
    /\ lastEvent' = NoEvent
    /\ UNCHANGED <<now, copilotToken, copilotFile, polls, expiredSince, superseded, observe, endpoint, req>>

\* lines 171-179: auth() of exchange e rejects, before the device code was
\* delivered ("init") or because the code expired
authCatch(e) ==
    /\ own[e]
    /\ xchg[e] \in {"init", "pending", "expired"}
    /\ own' = [own EXCEPT ![e] = FALSE]
    /\ IF pendingVerification = 0
       THEN /\ pendingAuth' = 0
            /\ lastEvent' = Ev("initiate", "catch", "rejected")
       ELSE /\ pendingAuth' = pendingAuth
            /\ lastEvent' = NoEvent
    /\ xchg' = Forget([xchg EXCEPT ![e] = IF @ = "init" THEN "failed" ELSE "expired"],
                      own', polls, pendingAuth')
    /\ UNCHANGED <<now, githubToken, copilotToken, pendingVerification,
                   tokenRefreshInterval, githubFile, copilotFile, polls,
                   refreshes, histVars, observe, endpoint, req, disk>>

\* ------------------------------------------------------ checkDeviceFlowAuth
\* lines 189-191
pollAuthenticated ==
    /\ Authenticated(githubToken, copilotToken, now)
    /\ lastEvent' = Ev("poll", "authenticated", "true")
    /\ UNCHANGED <<now, authVars, envVars, histVars, observe, endpoint, req, disk>>

\* lines 194-196
pollNoPendingAuth ==
    /\ ~Authenticated(githubToken, copilotToken, now)
    /\ pendingAuth = 0
    /\ lastEvent' = Ev("poll", "no_pending_auth", "false")
    /\ UNCHANGED <<now, authVars, envVars, histVars, observe, endpoint, req, disk>>

\* line 200: the stored handle is called and awaited
pollCall ==
    /\ ~Authenticated(githubToken, copilotToken, now)
    /\ pendingAuth # 0
    /\ InFlight(polls, refreshes) < MaxInFlight
    /\ polls' = [polls EXCEPT ![pendingAuth] = @ + 1]
    /\ lastEvent' = NoEvent
    /\ UNCHANGED <<now, authVars, xchg, own, refreshes, histVars,
                   observe, endpoint, req, disk>>

\* lines 202-215: the awaited call resolves with a token; the result of
\* checkDeviceFlowAuth waits for the refresh
pollToken(e) ==
    /\ polls[e] > 0
    /\ xchg[e] \in {"pending", "authorized"}
    /\ polls' = [polls EXCEPT ![e] = @ - 1]
    /\ StoreGithubToken(e)
    /\ StartRefresh("poll")
    /\ xchg' = Forget([xchg EXCEPT ![e] = "authorized"], own, polls', 0)
    /\ lastEvent' = NoEvent
    /\ UNCHANGED <<now, copilotToken, copilotFile, own, expiredSince, superseded, observe, endpoint, req>>

\* line 220: the awaited call resolves without a token
pollNoToken(e) ==
    /\ polls[e] > 0
    /\ xchg[e] \in {"pending", "authorized"}
    /\ polls' = [polls EXCEPT ![e] = @ - 1]
    /\ xchg' = Forget([xchg EXCEPT ![e] = "authorized"], own, polls', pendingAuth)
    /\ lastEvent' = Ev("poll", "no_token", "false")
    /\ UNCHANGED <<now, authVars, own, refreshes, histVars, observe, endpoint, req, disk>>

pollPending_ClearsPending(e) ==
    /\ polls[e] > 0
    /\ xchg[e] \in {"init", "pending"}
    /\ polls' = [polls EXCEPT ![e] = @ - 1]
    /\ pendingAuth' = 0
    /\ pendingVerification' = 0
    /\ xchg' = Forget(xchg, own, polls', 0)
    /\ lastEvent' = Ev("poll", "authorization_pending", "false")
    /\ UNCHANGED <<now, githubToken, copilotToken, tokenRefreshInterval,
                   githubFile, copilotFile, own, refreshes, histVars, observe, endpoint,
                   req, disk>>

\* lines 225-227: the awaited call rejects with "authorization_pending"
pollPending(e) ==
    /\ polls[e] > 0
    /\ xchg[e] \in {"init", "pending"}
    /\ polls' = [polls EXCEPT ![e] = @ - 1]
    /\ xchg' = Forget(xchg, own, polls', pendingAuth)
    /\ lastEvent' = Ev("poll", "authorization_pending", "false")
    /\ UNCHANGED <<now, authVars, own, refreshes, histVars, observe, endpoint, req, disk>>

pollExpired_KeepsHandle(e) ==
    /\ polls[e] > 0
    /\ xchg[e] \in {"pending", "expired"}
    /\ polls' = [polls EXCEPT ![e] = @ - 1]
    /\ pendingVerification' = 0
    /\ xchg' = Forget([xchg EXCEPT ![e] = "expired"], own, polls', pendingAuth)
    /\ expiredSince' = TRUE
    /\ lastEvent' = Ev("poll", "expired", "false")
    /\ UNCHANGED <<now, githubToken, copilotToken, pendingAuth,
                   tokenRefreshInterval, githubFile, copilotFile, own,
                   refreshes, clearedAt, superseded, followUps, observe, endpoint, req, disk>>

\* lines 230-235: the awaited call rejects with "expired"
pollExpired(e) ==
    /\ polls[e] > 0
    /\ xchg[e] \in {"pending", "expired"}
    /\ polls' = [polls EXCEPT ![e] = @ - 1]
    /\ pendingAuth' = 0
    /\ pendingVerification' = 0
    /\ xchg' = Forget([xchg EXCEPT ![e] = "expired"], own, polls', 0)
    /\ expiredSince' = TRUE
    /\ lastEvent' = Ev("poll", "expired", "false")
    /\ UNCHANGED <<now, githubToken, copilotToken, tokenRefreshInterval,
                   githubFile, copilotFile, own, refreshes, clearedAt,
                   superseded, followUps, observe, endpoint, req, disk>>

\* lines 238-239: the awaited call rejects with any other error
pollOtherError(e) ==
    /\ polls[e] > 0
    /\ polls' = [polls EXCEPT ![e] = @ - 1]
    /\ xchg' = Forget(xchg, own, polls', pendingAuth)
    /\ lastEvent' = Ev("poll", "error", "false")
    /\ UNCHANGED <<now, authVars, own, refreshes, histVars, observe, endpoint, req, disk>>

\* lines 215-217, 262-272: the refresh awaited by checkDeviceFlowAuth answers
\* 2xx; the body is stored and saved, then its expiry is logged (lines
\* 268-270), and when that throws the refresh has failed (lines 273-276,
\* 238-239)
pollRefreshed(body) ==
    /\ refreshes["poll"] > 0
    /\ refreshes' = [refreshes EXCEPT !["poll"] = @ - 1]
    /\ StoreCopilotToken(body)
    /\ lastEvent' = IF LogsExpiry(body) THEN Ev("poll", "refreshed", "true")
                                        ELSE Ev("poll", "refresh_failed", "false")
    /\ UNCHANGED <<now, githubToken, pendingVerification, pendingAuth,
                   tokenRefreshInterval, githubFile, xchg, own, polls,
                   histVars, observe, endpoint, req>>

\* lines 215, 221-239: the refresh awaited by checkDeviceFlowAuth throws; the
\* catch of checkDeviceFlowAuth logs it and returns false
pollRefreshFailed ==
    /\ refreshes["poll"] > 0
    /\ refreshes' = [refreshes EXCEPT !["poll"] = @ - 1]
    /\ lastEvent' = Ev("poll", "refresh_failed", "false")
    /\ UNCHANGED <<now, authVars, xchg, own, polls, histVars, observe, endpoint, req, disk>>

\* ------------------------------------------------------ refreshCopilotToken
\* lines 95-104: the interval callback
timerTick ==
    /\ tokenRefreshInterval
    /\ githubToken # 0
    /\ copilotToken = NullToken \/ ~isTokenValid(copilotToken, now)
    /\ InFlight(polls, refreshes) < MaxInFlight
    /\ StartRefresh("background")
    /\ lastEvent' = NoEvent
    /\ UNCHANGED <<now, authVars, xchg, own, polls, histVars,
                   observe, endpoint, req, disk>>

\* lines 262-272: the token endpoint answers 2xx to a refresh nobody awaits
\* (a throw of the expiry log is caught and logged by the caller)
refreshResolved(body) ==
    /\ refreshes["background"] > 0
    /\ refreshes' = [refreshes EXCEPT !["background"] = @ - 1]
    /\ StoreCopilotToken(body)
    /\ lastEvent' = NoEvent
    /\ UNCHANGED <<now, githubToken, pendingVerification, pendingAuth,
                   tokenRefreshInterval, githubFile, xchg, own, polls,
                   histVars, observe, endpoint, req>>

\* lines 262-264, 273-276: the endpoint answers non-2xx or fetch throws; the
\* caller's catch logs the error (lines 100-102, 167-169)
refreshRejected ==
    /\ refreshes["background"] > 0
    /\ refreshes' = [refreshes EXCEPT !["background"] = @ - 1]
    /\ lastEvent' = NoEvent
    /\ UNCHANGED <<now, authVars, xchg, own, polls, histVars,
                   observe, endpoint, req, disk>>

\* --------------------------------------------------------------- clearTokens
clearTokens ==
    /\ githubToken' = 0
    /\ copilotToken' = NullToken
    /\ pendingAuth' = 0
    /\ pendingVerification' = 0
    /\ tokenRefreshInterval' = FALSE
    /\ deletePersistedTokens
    /\ xchg' = Forget(xchg, own, polls, 0)
    /\ clearedAt' = IF observe THEN Cardinality(Created) ELSE clearedAt
    /\ lastEvent' = NoEvent
    /\ UNCHANGED <<now, own, polls, refreshes, expiredSince, superseded,
                   followUps, observe, endpoint, req>>

\* ------------------------------------------------- POST /v1/messages
requireAuth_NoCheck(tok, t) == "next"

\* requireAuth, lines 325-331: the first statement of the middleware
requireAuth(tok, t) == IF ~isTokenValid(tok, t) THEN "401" ELSE "next"

\* the route handler up to its first await: the body is validated (lines
\* 394-434), then getCopilotToken() is read (lines 436-443), then the chat
\* completion is requested with copilotToken.token (lines 449-454)
messagesHandler(wellFormed, tok) ==
    IF ~wellFormed THEN "400"
    ELSE IF tok = NullToken THEN "401"
    ELSE "call"

\* next(): the handler runs in the same turn as the middleware that calls it
Serve(wellFormed, tok) ==
    LET h == messagesHandler(wellFormed, tok) IN
        IF h = "call"
        THEN /\ req' = [pc |-> "backend"]
             /\ lastEvent' = NoEvent
        ELSE /\ req' = NoRequest
             /\ lastEvent' = Ev("request", IF h = "400" THEN "invalid_request"
                                                        ELSE "no_token", h)

\* lines 325-331: a request arrives and requireAuth answers 401
requireAuthRejects ==
    /\ req.pc = "idle"
    /\ requireAuth(copilotToken, now) = "401"
    /\ lastEvent' = Ev("request", "auth_required", "401")
    /\ UNCHANGED <<now, authVars, envVars, histVars, observe, endpoint, req, disk>>

\* lines 333-338: a request arrives and passes the first check.  The second
\* isTokenValid() reads the clock again, at t2; when the token has run out
\* in between, refreshCopilotToken() is awaited (it throws at once without
\* githubToken, lines 248-250), otherwise next() runs the handler
requireAuthPasses(wellFormed, t2) ==
    /\ req.pc = "idle"
    /\ requireAuth(copilotToken, now) = "next"
    /\ t2 \in {now, now + 1}
    /\ t2 <= MaxNow
    /\ now' = t2
    /\ IF copilotToken # NullToken /\ ~isTokenValid(copilotToken, t2)
       THEN IF githubToken = 0
            THEN /\ req' = NoRequest
                 /\ lastEvent' = Ev("request", "refresh_failed", "401")
                 /\ UNCHANGED refreshes
            ELSE /\ InFlight(polls, refreshes) < MaxInFlight
                 /\ StartRefresh("request")
                 /\ req' = [pc |-> "refresh"]
                 /\ lastEvent' = NoEvent
       ELSE /\ Serve(wellFormed, copilotToken)
            /\ UNCHANGED refreshes
    /\ UNCHANGED <<authVars, xchg, own, polls, histVars, observe, endpoint, disk>>

\* lines 336-338, 262-272: the refresh awaited by requireAuth answers 2xx
requestRefreshed(body, wellFormed) ==
    /\ refreshes["request"] > 0
    /\ refreshes' = [refreshes EXCEPT !["request"] = @ - 1]
    /\ StoreCopilotToken(body)
    /\ IF LogsExpiry(body)
       THEN Serve(wellFormed, body)
       ELSE /\ req' = NoRequest
            /\ lastEvent' = Ev("request", "refresh_failed", "401")
    /\ UNCHANGED <<now, githubToken, pendingVerification, pendingAuth,
                   tokenRefreshInterval, githubFile, xchg, own, polls,
                   histVars, observe, endpoint>>

\* lines 339-346: the refresh awaited by requireAuth throws
requestRefreshFailed ==
    /\ refreshes["request"] > 0
    /\ refreshes' = [refreshes EXCEPT !["request"] = @ - 1]
    /\ req' = NoRequest
    /\ lastEvent' = Ev("request", "refresh_failed", "401")
    /\ UNCHANGED <<now, authVars, xchg, own, polls, histVars, observe, endpoint, disk>>

\* lines 449-470: the chat completion answers (200) or throws (500)
backendResponds(status) ==
    /\ req.pc = "backend"
    /\ req' = NoRequest
    /\ lastEvent' = Ev("request", "backend", status)
    /\ UNCHANGED <<now, authVars, envVars, histVars, observe, endpoint, disk>>

\* ------------------------------------------------------------ specification
Next ==
    \/ Tick
    \/ initiateAuthenticated
    \/ initiateDeviceFlow
    \/ \E e \in Exchanges : onVerification(e)
    \/ \E e \in Exchanges : authThen(e)
    \/ \E e \in Exchanges : authCatch(e)
    \/ pollAuthenticated
    \/ pollNoPendingAuth
    \/ pollCall
    \/ \E e \in Exchanges : pollToken(e)
    \/ \E e \in Exchanges : pollNoToken(e)
    \/ \E e \in Exchanges : pollPending(e)
    \/ \E e \in Exchanges : pollExpired(e)
    \/ \E e \in Exchanges : pollOtherError(e)
    \/ \E body \in TokenBodies : pollRefreshed(body)
    \/ pollRefreshFailed
    \/ timerTick
    \/ \E body \in TokenBodies : refreshResolved(body)
    \/ refreshRejected
    \/ clearTokens
    \/ requireAuthRejects
    \/ \E wellFormed \in BOOLEAN, t2 \in 0..MaxNow : requireAuthPasses(wellFormed, t2)
    \/ \E body \in TokenBodies, wellFormed \in BOOLEAN : requestRefreshed(body, wellFormed)
    \/ requestRefreshFailed
    \/ \E status \in {"200", "500"} : backendResponds(status)

Spec == Init /\ [][Next]_vars

\* the same program, with the history variables kept
SpecObserved == InitObserved /\ [][Next]_vars

\* a body that stays valid up to MaxNow
FreshBody == [set |-> TRUE, token |-> "cpt", expires_at |-> ExpiryBuffer + MaxNow + 1]

\* the periodic refresh next to the chat requests: the clock, the interval
\* callback, the answers of the token endpoint, clearTokens and the request
\* path.  setInterval keeps firing the callback, the token endpoint answers
\* with a fresh body again and again, and a refresh awaited by a request is
\* answered
NextTimer ==
    \/ Tick
    \/ timerTick
    \/ \E body \in TokenBodies : refreshResolved(body)
    \/ refreshRejected
    \/ clearTokens
    \/ requireAuthRejects
    \/ \E wellFormed \in BOOLEAN, t2 \in 0..MaxNow : requireAuthPasses(wellFormed, t2)
    \/ \E body \in TokenBodies, wellFormed \in BOOLEAN : requestRefreshed(body, wellFormed)
    \/ requestRefreshFailed
    \/ \E status \in {"200", "500"} : backendResponds(status)

SpecTimer ==
    /\ Init
    /\ [][NextTimer]_vars
    /\ WF_vars(timerTick)
    /\ SF_vars(refreshResolved(FreshBody))
    /\ WF_vars(requestRefreshFailed
                 \/ \E body \in TokenBodies, wellFormed \in BOOLEAN :
                        requestRefreshed(body, wellFormed))

\* ------------------------------------------ refreshes at the token endpoint
\* the same refreshCopilotToken(), with the token endpoint followed: requests
\* on their way (endpoint.requests), the bodies it has answered with and that
\* are on their way back (endpoint.answers, in the order they were issued),
\* and the latest expires_at it has issued.  The endpoint never issues a
\* token that expires before one it issued earlier.
MaxRefreshes == 2

InitRefresh ==
    /\ InitLoaded
    /\ req = NoRequest
    /\ observe = FALSE
    /\ endpoint = [issued |-> IF copilotFile # NullToken /\ LogsExpiry(copilotFile)
                              THEN copilotFile.expires_at ELSE 0,
                   requests |-> 0,
                   answers |-> <<>>]

\* lines 95-104, 248-260: the interval callback finds githubToken and no valid
\* copilotToken and calls refreshCopilotToken(), whether or not an earlier
\* call is still awaiting its fetch
intervalCallback ==
    /\ tokenRefreshInterval
    /\ githubToken # 0
    /\ copilotToken = NullToken \/ ~isTokenValid(copilotToken, now)
    /\ endpoint.requests + Len(endpoint.answers) < MaxRefreshes
    /\ endpoint' = [endpoint EXCEPT !.requests = @ + 1]
    /\ lastEvent' = NoEvent
    /\ UNCHANGED <<now, authVars, envVars, histVars, observe, req, disk>>

\* the token endpoint answers a request with a token body
endpointAnswers(exp) ==
    /\ endpoint.requests > 0
    /\ exp >= endpoint.issued
    /\ endpoint' = [issued |-> exp,
                    requests |-> endpoint.requests - 1,
                    answers |-> Append(endpoint.answers,
                                       [set |-> TRUE, token |-> "cpt", expires_at |-> exp])]
    /\ lastEvent' = NoEvent
    /\ UNCHANGED <<now, authVars, envVars, histVars, observe, req, disk>>

\* lines 253-272: the fetch of one refreshCopilotToken() call resolves with
\* the i-th answer on its way; the body is stored and saved
refreshDelivered(i) ==
    /\ i \in 1..Len(endpoint.answers)
    /\ StoreCopilotToken(endpoint.answers[i])
    /\ endpoint' = [endpoint EXCEPT !.answers =
                        [j \in 1..(Len(@) - 1) |-> IF j < i THEN @[j] ELSE @[j + 1]]]
    /\ lastEvent' = NoEvent
    /\ UNCHANGED <<now, githubToken, pendingVerification, pendingAuth,
                   tokenRefreshInterval, githubFile, envVars, histVars, observe, req>>

\* lines 262-264, 273-276, 100-102: the endpoint answers non-2xx or the fetch
\* throws; the interval callback logs it
refreshThrows ==
    /\ endpoint.requests > 0
    /\ endpoint' = [endpoint EXCEPT !.requests = @ - 1]
    /\ lastEvent' = NoEvent
    /\ UNCHANGED <<now, authVars, envVars, histVars, observe, req, disk>>

NextRefresh ==
    \/ Tick
    \/ intervalCallback
    \/ \E exp \in ExpiresAtValues : endpointAnswers(exp)
    \/ \E i \in 1..MaxRefreshes : refreshDelivered(i)
    \/ refreshThrows
    \/ clearTokens

SpecRefresh == InitRefresh /\ [][NextRefresh]_vars

\* ------------------------------------------- POST /v1/messages, in detail
\* The body of a request, as express.json() hands it to the handler.  A field
\* is absent, or has a value of the wrong type, or a value of its type.
MaxTurns == 2

Roles == {"user", "assistant", "system", "absent"}
Contents == {"text", "null", "absent"}
Turns == [role : Roles, content : Contents]

MessagesValues ==
    {[kind |-> "absent", turns |-> <<>>], [kind |-> "notlist", turns |-> <<>>]}
    \cup {[kind |-> "list", turns |-> t] :
             t \in UNION {[1..n -> Turns] : n \in 0..MaxTurns}}

ModelValues ==
    {[kind |-> "absent", id |-> ""], [kind |-> "string", id |-> ""],
     [kind |-> "string", id |-> "claude-sonnet-4"]}

MaxTokensValues ==
    {[kind |-> "absent", n |-> 0], [kind |-> "string", n |-> 0]}
    \cup [kind : {"number"}, n : {0 - 1, 0, 1}]

RequestBodies ==
    [messages : MessagesValues, model : ModelValues,
     max_tokens : MaxTokensValues, stream : BOOLEAN]

\* createAnthropicError(type, message), sent with a status
ErrorResponse(status, type, message) ==
    [status |-> status, type |-> type, message |-> message]
NoError == ErrorResponse("none", "none", "")
Passed == ErrorResponse("ok", "none", "")

InvalidRequest(message) == ErrorResponse("400", "invalid_request_error", message)

\* lines 419-433: the first turn, in order, that fails a check, and the error
\* it is answered with; 0 when every turn passes
RECURSIVE FirstBadTurn(_, _)
FirstBadTurn(turns, i) ==
    IF i > Len(turns) THEN 0
    ELSE IF turns[i].role \notin {"user", "assistant"} THEN i
    ELSE IF turns[i].content \in {"null", "absent"} THEN i
    ELSE FirstBadTurn(turns, i + 1)

\* line 410: "!max_tokens || typeof max_tokens !== 'number'" is false
validateMaxTokens(mt) ==
    ~(mt.kind = "absent" \/ mt.n = 0 \/ mt.kind # "number")

validateRequest_SkipsTurns(b) ==
    IF b.messages.kind # "list" \/ Len(b.messages.turns) = 0
    THEN InvalidRequest("messages: field required")
    ELSE IF b.model.kind = "absent" \/ b.model.id = ""
    THEN InvalidRequest("model: field required")
    ELSE IF ~validateMaxTokens(b.max_tokens)
    THEN InvalidRequest("max_tokens: field required and must be a number")
    ELSE Passed

\* lines 394-434: the checks of the handler, in the order of the code
validateRequest(b) ==
    IF b.messages.kind # "list" \/ Len(b.messages.turns) = 0
    THEN InvalidRequest("messages: field required")
    ELSE IF b.model.kind = "absent" \/ b.model.id = ""
    THEN InvalidRequest("model: field required")
    ELSE IF ~validateMaxTokens(b.max_tokens)
    THEN InvalidRequest("max_tokens: field required and must be a number")
    ELSE LET i == FirstBadTurn(b.messages.turns, 1) IN
        IF i = 0 THEN Passed
        ELSE IF b.messages.turns[i].role \notin {"user", "assistant"}
        THEN InvalidRequest("messages: each message must have a valid role (user or assistant)")
        ELSE InvalidRequest("messages: each message must have content")

\* "const chunkSize = 20; // Characters per chunk"
chunkSize == 20

\* the text of the converted backend response: its i-th character is i
Text(L) == [i \in 1..L |-> i]
TextLengths == {0, 1, chunkSize, chunkSize + 1, 2 * chunkSize + 1}
BackendTexts == {Text(L) : L \in TextLengths}

\* text.slice(i, i + size)
slice(text, i, size) ==
    SubSeq(text, i + 1, IF i + size < Len(text) THEN i + size ELSE Len(text))

StreamChunks_DropsPartial(text, size) ==
    [k \in 1..(Len(text) \div size) |-> slice(text, (k - 1) * size, size)]

\* lines 549-568: the chunks the loop "for (i = 0; i < text.length; i +=
\* chunkSize)" writes, in order
RECURSIVE ChunksFrom(_, _, _)
ChunksFrom(text, i, size) ==
    IF i < Len(text)
    THEN <<slice(text, i, size)>> \o ChunksFrom(text, i + size, size)
    ELSE <<>>

StreamChunks(text, size) == ChunksFrom(text, 0, size)

SseEvent(type) == [type |-> type, text |-> <<>>]
ContentDelta(chunk) == [type |-> "content_block_delta", text |-> chunk]

\* lines 504-531: written before the backend is called
OpeningEvents == <<SseEvent("message_start"), SseEvent("content_block_start")>>
\* lines 570-592: written after the last chunk, before res.end()
ClosingEvents ==
    <<SseEvent("content_block_stop"), SseEvent("message_delta"),
      SseEvent("message_stop")>>

makeAnthropicCompletionRequest_PassesStream(b) == [stream |-> b.stream]

\* lines 522-528: the body of the chat completion call
makeAnthropicCompletionRequest(b) == [stream |-> FALSE]

NewRequest(b) ==
    [pc |-> "arrived", body |-> b, status |-> "none", error |-> NoError,
     calls |-> <<>>, events |-> <<>>, outcome |-> "none", text |-> <<>>,
     written |-> 0, closed |-> FALSE]

InitMessages ==
    /\ InitLoaded
    /\ observe = FALSE
    /\ endpoint = NoEndpoint
    /\ req \in {NewRequest(b) : b \in RequestBodies}

\* lines 325-331: requireAuth answers 401
postMessagesUnauthorized ==
    /\ req.pc = "arrived"
    /\ requireAuth(copilotToken, now) = "401"
    /\ req' = [req EXCEPT
                  !.pc = "done", !.status = "401",
                  !.error = ErrorResponse("401", "authentication_error",
                                          "GitHub Copilot authentication required")]
    /\ UNCHANGED <<now, authVars, envVars, lastEvent, histVars, observe, endpoint, disk>>

\* lines 386-460, 484-540: requireAuth passes (the token read a second time
\* in the same second is still valid) and the handler runs up to its first
\* await: validation, getCopilotToken(), and the chat completion call, which
\* a streaming request makes after it has written its first two events
postMessages ==
    /\ req.pc = "arrived"
    /\ requireAuth(copilotToken, now) = "next"
    /\ LET v == validateRequest(req.body)
           h == messagesHandler(v.status = "ok", copilotToken) IN
        IF h = "400"
        THEN req' = [req EXCEPT !.pc = "done", !.status = "400", !.error = v]
        ELSE IF h = "401"
        THEN req' = [req EXCEPT
                        !.pc = "done", !.status = "401",
                        !.error = ErrorResponse("401", "authentication_error",
                                                "GitHub Copilot token not available")]
        ELSE req' = [req EXCEPT
                        !.pc = "backend",
                        !.calls = <<makeAnthropicCompletionRequest(req.body)>>,
                        !.events = IF req.body.stream THEN OpeningEvents ELSE <<>>,
                        !.status = IF req.body.stream THEN "200" ELSE "none"]
    /\ UNCHANGED <<now, authVars, envVars, lastEvent, histVars, observe, endpoint, disk>>

StreamEnd_NoStop(r) ==
    [r EXCEPT !.pc = "done",
              !.events = @ \o SubSeq(ClosingEvents, 1, Len(ClosingEvents) - 1)]

\* lines 570-597: the closing events and res.end()
StreamEnd(r) ==
    [r EXCEPT !.pc = "done", !.events = @ \o ClosingEvents]

\* one turn of the loop of lines 550-568: the next chunk is written and the
\* handler waits 10 ms; past the last chunk the stream is closed.  written =
\* i / chunkSize
StreamStep(r) ==
    LET chunks == StreamChunks(r.text, chunkSize) IN
        IF r.written < Len(chunks)
        THEN [r EXCEPT !.pc = "streaming",
                       !.events = Append(@, ContentDelta(chunks[r.written + 1])),
                       !.written = @ + 1]
        ELSE StreamEnd(r)

\* lines 454-461, 536-548: the chat completion answers and its conversion
\* succeeds; the text blocks of the converted response are joined
backendSucceeds(text) ==
    /\ req.pc = "backend"
    /\ LET r == [req EXCEPT !.outcome = "ok", !.text = text] IN
        req' = IF req.body.stream
               THEN StreamStep(r)
               ELSE [r EXCEPT !.pc = "done", !.status = "200"]
    /\ UNCHANGED <<now, authVars, envVars, lastEvent, histVars, observe, endpoint, disk>>

\* lines 462-469, 602-615: the chat completion throws (non-2xx, network,
\* conversion); nothing is called again
backendFails ==
    /\ req.pc = "backend"
    /\ req' = IF req.body.stream
              THEN [req EXCEPT !.pc = "done", !.outcome = "error",
                               !.events = Append(@, SseEvent("error")),
                               !.error = ErrorResponse("200", "api_error", "")]
              ELSE [req EXCEPT !.pc = "done", !.outcome = "error",
                               !.status = "500",
                               !.error = ErrorResponse("500", "api_error", "")]
    /\ UNCHANGED <<now, authVars, envVars, lastEvent, histVars, observe, endpoint, disk>>

\* line 567: the 10 ms wait is over
streamResume ==
    /\ req.pc = "streaming"
    /\ req' = StreamStep(req)
    /\ UNCHANGED <<now, authVars, envVars, lastEvent, histVars, observe, endpoint, disk>>

\* the client closes the connection of a streaming request that is waiting
\* for the chat completion or for the 10 ms between two chunks; the handler
\* has registered no listener and reads no state of the response
connectionCloses ==
    /\ req.pc \in {"backend", "streaming"}
    /\ req.body.stream
    /\ ~req.closed
    /\ req' = [req EXCEPT !.closed = TRUE]
    /\ UNCHANGED <<now, authVars, envVars, lastEvent, histVars, observe, endpoint, disk>>

NextMessages ==
    \/ connectionCloses
    \/ postMessagesUnauthorized
    \/ postMessages
    \/ \E text \in BackendTexts : backendSucceeds(text)
    \/ backendFails
    \/ streamResume

SpecMessages == InitMessages /\ [][NextMessages]_vars

\* ------------------------------------------------------------------ claims
\* C1 (as stated): isTokenValid() is true iff a ServiceCredential is stored
\* and now < expiresAt - 5.
C1_ValidIffStoredAndFresh ==
    isTokenValid(copilotToken, now)
        <=> (copilotToken # NullToken /\ now < copilotToken.expires_at - 5)

\* C1 (amended): isTokenValid() is true iff a ServiceCredential with a
\* non-empty token is stored and now < expiresAt - 5; it is false when
\* nothing is stored and whenever now >= expiresAt - 5.
C1_ValidIffTokenAndFresh ==
    /\ isTokenValid(copilotToken, now)
           <=> /\ copilotToken # NullToken
               /\ copilotToken.token # ""
               /\ now < copilotToken.expires_at - 5
    /\ copilotToken = NullToken => ~isTokenValid(copilotToken, now)
    /\ now >= copilotToken.expires_at - 5 => ~isTokenValid(copilotToken, now)

\* a credential in its last valid second, and found valid
C1_Witness ==
    /\ copilotToken # NullToken
    /\ copilotToken.token # ""
    /\ now = copilotToken.expires_at - 5 - 1
    /\ isTokenValid(copilotToken, now)

\* C2: a request enters the handler, and so reaches the chat completion call,
\* only when isTokenValid() was true when it arrived; a request that arrives
\* while isTokenValid() is false is answered 401 and no chat completion call
\* is made for it.
C2_BackendOnlyAfterValidCheck ==
    [][/\ req.pc = "idle" /\ req'.pc # "idle"
            => isTokenValid(copilotToken, now)
       /\ req.pc = "idle" /\ lastEvent'.op = "request"
                          /\ ~isTokenValid(copilotToken, now)
            => /\ lastEvent'.ret = "401"
               /\ req'.pc = "idle"]_vars

\* the chat completion call of a request that passed the check is in flight
C2_Witness ==
    /\ req.pc = "backend"
    /\ isTokenValid(copilotToken, now)

\* C3: a request that arrives while githubToken is stored and the
\* copilotToken is missing or expired starts a refreshCopilotToken(), and
\* when that refresh succeeds the request is not answered 401.
C3_InvalidTokenTriggersRefresh ==
    [][/\ (/\ req.pc = "idle"
           /\ lastEvent'.op = "request" \/ req'.pc # "idle"
           /\ githubToken # 0
           /\ copilotToken = NullToken \/ now >= copilotToken.expires_at - 5)
            => /\ req'.pc = "refresh"
               /\ refreshes'["request"] = refreshes["request"] + 1
       /\ (\E body \in TokenBodies, wellFormed \in BOOLEAN :
               requestRefreshed(body, wellFormed))
            => lastEvent'.ret # "401"]_vars

\* C4: after clearTokens() both credentials are absent from memory and from
\* the files, the timer is disarmed and isTokenValid() is false, until a
\* device flow started after the clearTokens() stores its token.
C4_ClearedUntilNewFlow ==
    clearedAt >= 0 =>
        /\ githubToken = 0
        /\ copilotToken = NullToken
        /\ githubFile = 0
        /\ copilotFile = NullToken
        /\ ~tokenRefreshInterval
        /\ ~isTokenValid(copilotToken, now)

\* C5: once a later initiateDeviceFlow() has run, the verification callback,
\* the token issuance and the failure of an exchange it superseded change
\* neither pendingVerification nor pendingAuth nor githubToken.
C5_SupersededIsInert ==
    [][\A f \in superseded :
          (onVerification(f) \/ authThen(f) \/ authCatch(f))
              => UNCHANGED <<pendingVerification, pendingAuth, githubToken, disk>>]_vars

\* C6: a checkDeviceFlowAuth() whose awaited call rejects with
\* "authorization_pending" returns false and changes neither
\* pendingVerification, pendingAuth, the two credentials, their files nor the
\* timer.
C6_PendingPollChangesNothing ==
    [][lastEvent' = Ev("poll", "authorization_pending", lastEvent'.ret)
          => /\ lastEvent'.ret = "false"
             /\ UNCHANGED authVars]_vars

\* a poll has just answered "authorization_pending" and the handle and the
\* verification data are still stored
C6_Witness ==
    /\ lastEvent = Ev("poll", "authorization_pending", "false")
    /\ pendingAuth # 0
    /\ pendingVerification = pendingAuth

\* C7: a checkDeviceFlowAuth() whose awaited call resolved with a token
\* stores it as githubToken, clears pendingAuth and pendingVerification, arms
\* the timer and starts a refresh; it returns true also when that refresh
\* fails, and the failure leaves githubToken stored.
C7_PollWithTokenReturnsTrue ==
    [][/\ \A e \in Exchanges :
            pollToken(e) => /\ githubToken' = e
                            /\ githubFile' = e
                            /\ pendingAuth' = 0
                            /\ pendingVerification' = 0
                            /\ tokenRefreshInterval'
                            /\ refreshes'["poll"] = refreshes["poll"] + 1
       /\ lastEvent'.op = "poll" /\ lastEvent'.why \in {"refreshed", "refresh_failed"}
            => /\ lastEvent'.ret = "true"
               /\ githubToken' = githubToken]_vars

\* C8: a poll creates no device-flow exchange, and for one exchange the token
\* is stored and the follow-up refresh triggered at most once.
C8_OneFollowUpPerHandshake ==
    [][/\ (lastEvent'.op = "poll" \/ polls' # polls) => Created' = Created
       /\ \A e \in Exchanges : followUps'[e] <= 1]_vars

\* C9 (as stated): after a poll saw the device code expired, every poll made
\* before the next initiateDeviceFlow() returns false.
C9_LaterPollsReturnFalse ==
    expiredSince /\ lastEvent.op = "poll"
                 /\ lastEvent.why \in {"authenticated", "no_pending_auth"}
        => lastEvent.ret = "false"

\* C9 (amended): a poll that sees the device code expired clears pendingAuth
\* and pendingVerification and returns false; until the next
\* initiateDeviceFlow() no poll calls the provider, and a poll made then
\* returns true when githubToken is stored and the copilotToken is valid, and
\* false otherwise.
C9_ExpiredPollClearsAndLaterPollsStayLocal ==
    [][/\ lastEvent' = Ev("poll", "expired", lastEvent'.ret)
            => /\ pendingAuth' = 0
               /\ pendingVerification' = 0
               /\ lastEvent'.ret = "false"
       /\ expiredSince
            => /\ pendingAuth = 0
               /\ \A e \in Exchanges : polls'[e] <= polls[e]
               /\ lastEvent'.op = "poll"
                      /\ lastEvent'.why \in {"authenticated", "no_pending_auth"}
                  => lastEvent'.ret =
                         IF githubToken # 0 /\ isTokenValid(copilotToken, now)
                         THEN "true" ELSE "false"]_vars

\* a poll made after the expiry found no handle and returned false
C9_Witness ==
    /\ expiredSince
    /\ lastEvent = Ev("poll", "no_pending_auth", "false")

\* C10 (as stated): while the copilotToken is valid, initiateDeviceFlow()
\* and checkDeviceFlowAuth() open no exchange, call no handle, return
\* "authenticated" / true and change nothing.
C10_ValidTokenShortCircuits ==
    [][isTokenValid(copilotToken, now)
          => /\ Created' = Created
             /\ \A e \in Exchanges : polls'[e] <= polls[e]
             /\ lastEvent'.why # "no_pending_auth"
             /\ lastEvent'.why = "authenticated"
                  => /\ lastEvent'.ret \in {"authenticated", "true"}
                     /\ UNCHANGED <<authVars, envVars, disk>>]_vars

\* C10 (amended): while githubToken is stored and the copilotToken is valid,
\* initiateDeviceFlow() and checkDeviceFlowAuth() open no exchange, call no
\* handle, return "authenticated" / true and change nothing.
C10_AuthenticatedShortCircuits ==
    [][githubToken # 0 /\ isTokenValid(copilotToken, now)
          => /\ Created' = Created
             /\ \A e \in Exchanges : polls'[e] <= polls[e]
             /\ lastEvent'.why # "no_pending_auth"
             /\ lastEvent'.why = "authenticated"
                  => /\ lastEvent'.ret \in {"authenticated", "true"}
                     /\ UNCHANGED <<authVars, envVars, disk>>]_vars

\* initiateDeviceFlow() has just answered "authenticated"
C10_Witness ==
    /\ lastEvent = Ev("initiate", "authenticated", "authenticated")
    /\ githubToken # 0
    /\ isTokenValid(copilotToken, now)

\* C11: refreshCopilotToken() calls the token endpoint only while githubToken
\* is stored; whenever it fails (thrown to the poll or the request that
\* awaits it, or logged by the timer) copilotToken and copilot-token.json are
\* unchanged; when it succeeds both are the returned body.
C11_FailedRefreshKeepsCredential ==
    [][/\ (\E o \in Owners : refreshes'[o] > refreshes[o]) => githubToken' # 0
       /\ lastEvent'.why = "refresh_failed" \/ refreshRejected
            => UNCHANGED <<copilotToken, copilotFile, disk>>
       /\ lastEvent'.why = "refreshed"
            => /\ copilotToken' \in TokenBodies
               /\ copilotFile' = copilotToken']_vars

\* C12: the interval callback calls refreshCopilotToken() only while
\* githubToken is stored and the copilotToken is missing or invalid, a failed
\* refresh leaves the timer armed, and while githubToken is stored the
\* copilotToken eventually becomes valid.
C12_StoredGithubTokenEventuallyValid ==
    /\ [][/\ refreshes'["background"] > refreshes["background"]
                => /\ githubToken # 0
                   /\ copilotToken = NullToken \/ ~isTokenValid(copilotToken, now)
          /\ refreshRejected => UNCHANGED tokenRefreshInterval]_vars
    /\ [](githubToken # 0
            => <>(githubToken = 0 \/ isTokenValid(copilotToken, now)))

\* C13: the interval timer is armed exactly when githubToken is stored.
C13_TimerArmedIffGithubToken ==
    tokenRefreshInterval <=> githubToken # 0

\* C14: no refresh replaces the stored copilotToken with one whose
\* expires_at is earlier.
C14_ExpiresAtNeverDecreases ==
    [][(/\ copilotToken # NullToken
        /\ copilotToken' # NullToken
        /\ LogsExpiry(copilotToken)
        /\ LogsExpiry(copilotToken'))
          => copilotToken'.expires_at >= copilotToken.expires_at]_vars

\* what the claims about a served request speak of
Handled == req.pc # "arrived" /\ req.status # "401"
Ceil(n, d) == (n + d - 1) \div d
EventTypes(events) == [i \in 1..Len(events) |-> events[i].type]
IsPrefix(a, b) == Len(a) <= Len(b) /\ a = SubSeq(b, 1, Len(a))
Deltas(events) == SelectSeq(events, LAMBDA e : e.type = "content_block_delta")
RECURSIVE Flatten(_)
Flatten(seqs) == IF seqs = <<>> THEN <<>> ELSE Head(seqs) \o Flatten(Tail(seqs))
ExpectedTypes(n) ==
    <<"message_start", "content_block_start">>
    \o [i \in 1..n |-> "content_block_delta"]
    \o <<"content_block_stop", "message_delta", "message_stop">>
BadTurn(t) == t.role \notin {"user", "assistant"} \/ t.content \in {"null", "absent"}

\* C15: a request that passed requireAuth and whose messages is absent, not
\* a list or empty, whose model is absent, or whose max_tokens is absent, not
\* a number, zero or negative is answered 400 invalid_request_error, and no
\* chat completion call is made for it.
C15_InvalidFieldsRejected ==
    (/\ Handled
     /\ \/ req.body.messages.kind # "list"
        \/ Len(req.body.messages.turns) = 0
        \/ req.body.model.kind = "absent"
        \/ req.body.max_tokens.kind # "number"
        \/ req.body.max_tokens.n <= 0)
        => /\ req.status = "400"
           /\ req.error.type = "invalid_request_error"
           /\ req.calls = <<>>

C17_StreamEventOrder ==
    /\ [](req.body.stream /\ req.outcome = "ok"
            => LET expected == ExpectedTypes(Ceil(Len(req.text), chunkSize)) IN
                   /\ IsPrefix(EventTypes(req.events), expected)
                   /\ req.pc = "done" => EventTypes(req.events) = expected)
    /\ [][req.pc = "done" => req' = req]_vars

\* a stream of three chunks has ended
C17_Witness ==
    /\ req.pc = "done"
    /\ req.body.stream
    /\ req.outcome = "ok"
    /\ Len(req.text) = 2 * chunkSize + 1
    /\ Len(req.events) = 8

\* C18: a finished stream of a text of length L has ceil(L / chunkSize)
\* content_block_delta events, each of at most chunkSize characters, whose
\* texts concatenated in order are the text; an empty text gives none; and
\* "Hello world" in chunks of 5 is "Hello", " worl", "d".
C18_ChunksPartitionText ==
    req.pc = "done" /\ req.body.stream /\ req.outcome = "ok"
        => LET d == Deltas(req.events) IN
               /\ Len(d) = Ceil(Len(req.text), chunkSize)
               /\ \A k \in 1..Len(d) : Len(d[k].text) \in 1..chunkSize
               /\ Flatten([k \in 1..Len(d) |-> d[k].text]) = req.text
               /\ req.text = <<>> => d = <<>>
               /\ \A size \in {1, 5, chunkSize} :
                     /\ Len(StreamChunks(req.text, size)) = Ceil(Len(req.text), size)
                     /\ Flatten(StreamChunks(req.text, size)) = req.text
               /\ StreamChunks(<<"H", "e", "l", "l", "o", " ", "w", "o", "r", "l", "d">>, 5)
                     = << <<"H", "e", "l", "l", "o">>, <<" ", "w", "o", "r", "l">>, <<"d">> >>

\* a stream whose last chunk is a single character has ended
C18_Witness ==
    /\ req.pc = "done"
    /\ req.body.stream
    /\ req.outcome = "ok"
    /\ Len(req.text) = chunkSize + 1
    /\ Len(Deltas(req.events)) = 2

\* C19: the only event of a streaming request whose chat completion failed
\* is the error event, and no content event follows an error event.
C19_ErrorIsTheOnlyEvent ==
    /\ req.pc = "done" /\ req.body.stream /\ req.outcome = "error"
          => EventTypes(req.events) = <<"error">>
    /\ \A i, j \in 1..Len(req.events) :
          i < j /\ req.events[i].type = "error"
              => req.events[j].type \notin
                    {"content_block_start", "content_block_delta", "content_block_stop"}

startsWith(s, p) == Len(p) <= Len(s) /\ SubSeq(s, 1, Len(p)) = p

\* the entries of the object literal, in the order Object.entries lists them
\* (no key is an integer index, so it is the order of the literal)
CLAUDE_MODEL_MAPPINGS == <<
    [key |-> <<"c", "l", "a", "u", "d", "e", "-", "o", "p", "u", "s", "-", "4", "-", "5", "-", "2", "0", "2", "5", "0", "5", "1", "4">>,
     value |-> "claude-opus-4.5"],
    [key |-> <<"c", "l", "a", "u", "d", "e", "-", "o", "p", "u", "s", "-", "4", ".", "5">>,
     value |-> "claude-opus-4.5"],
    [key |-> <<"o", "p", "u", "s">>,
     value |-> "claude-opus-4.5"],
    [key |-> <<"c", "l", "a", "u", "d", "e", "-", "s", "o", "n", "n", "e", "t", "-", "4", "-", "5", "-", "2", "0", "2", "5", "0", "5", "1", "4">>,
     value |-> "claude-sonnet-4.5"],
    [key |-> <<"c", "l", "a", "u", "d", "e", "-", "s", "o", "n", "n", "e", "t", "-", "4", ".", "5">>,
     value |-> "claude-sonnet-4.5"],
    [key |-> <<"c", "l", "a", "u", "d", "e", "-", "s", "o", "n", "n", "e", "t", "-", "4", "-", "2", "0", "2", "5", "0", "5", "1", "4">>,
     value |-> "claude-sonnet-4.5"],
    [key |-> <<"c", "l", "a", "u", "d", "e", "-", "s", "o", "n", "n", "e", "t", "-", "4">>,
     value |-> "claude-sonnet-4.5"],
    [key |-> <<"s", "o", "n", "n", "e", "t">>,
     value |-> "claude-sonnet-4.5"],
    [key |-> <<"c", "l", "a", "u", "d", "e", "-", "h", "a", "i", "k", "u", "-", "4", "-", "5", "-", "2", "0", "2", "5", "0", "5", "1", "4">>,
     value |-> "claude-haiku-4.5"],
    [key |-> <<"c", "l", "a", "u", "d", "e", "-", "h", "a", "i", "k", "u", "-", "4", ".", "5">>,
     value |-> "claude-haiku-4.5"],
    [key |-> <<"c", "l", "a", "u", "d", "e", "-", "3", "-", "5", "-", "h", "a", "i", "k", "u", "-", "2", "0", "2", "4", "1", "0", "2", "2">>,
     value |-> "claude-haiku-4.5"],
    [key |-> <<"c", "l", "a", "u", "d", "e", "-", "3", ".", "5", "-", "h", "a", "i", "k", "u">>,
     value |-> "claude-haiku-4.5"],
    [key |-> <<"h", "a", "i", "k", "u">>,
     value |-> "claude-haiku-4.5"] >>

Keys == {CLAUDE_MODEL_MAPPINGS[i].key : i \in 1..Len(CLAUDE_MODEL_MAPPINGS)}

\* CLAUDE_MODEL_MAPPINGS is a plain object: a property read that finds no own
\* property goes on to Object.prototype, whose members are functions (an
\* object for __proto__), all of them truthy
ObjectPrototypeKeys ==
    {<<"c", "o", "n", "s", "t", "r", "u", "c", "t", "o", "r">>,
     <<"t", "o", "S", "t", "r", "i", "n", "g">>,
     <<"_", "_", "p", "r", "o", "t", "o", "_", "_">>,
     <<"h", "a", "s", "O", "w", "n", "P", "r", "o", "p", "e", "r", "t", "y">>}
InheritedMember == "a member of Object.prototype"
Undefined == "undefined"

\* CLAUDE_MODEL_MAPPINGS[claudeModel]
PropertyRead(claudeModel) ==
    IF claudeModel \in Keys
    THEN CLAUDE_MODEL_MAPPINGS[CHOOSE i \in 1..Len(CLAUDE_MODEL_MAPPINGS) :
                                  CLAUDE_MODEL_MAPPINGS[i].key = claudeModel].value
    ELSE IF claudeModel \in ObjectPrototypeKeys THEN InheritedMember
    ELSE Undefined

\* lines 22-26: the first entry whose key is a prefix of the name or has the
\* name as a prefix; 0 when the loop ends without one
RECURSIVE FirstPartialMatch(_, _)
FirstPartialMatch(claudeModel, i) ==
    IF i > Len(CLAUDE_MODEL_MAPPINGS) THEN 0
    ELSE IF \/ startsWith(claudeModel, CLAUDE_MODEL_MAPPINGS[i].key)
            \/ startsWith(CLAUDE_MODEL_MAPPINGS[i].key, claudeModel)
    THEN i
    ELSE FirstPartialMatch(claudeModel, i + 1)

DefaultModel == "claude-opus-4.5"

mapClaudeModelToCopilot(claudeModel) ==
    LET mapped == PropertyRead(claudeModel) IN
        IF mapped # Undefined THEN mapped
        ELSE LET i == FirstPartialMatch(claudeModel, 1) IN
            IF i # 0 THEN CLAUDE_MODEL_MAPPINGS[i].value ELSE DefaultModel

\* the names the function is called with: every prefix of every key (the
\* empty name and the keys among them), keys with a version suffix, names of
\* no model, and names of members of Object.prototype
VersionSuffix == <<"-", "v", "2">>
UnknownModels ==
    {<<"t", "o", "t", "a", "l", "l", "y", "-", "u", "n", "k", "n", "o", "w", "n", "-", "m", "o", "d", "e", "l">>,
     <<"g", "p", "t", "-", "4">>}
ModelNames ==
    UNION {{SubSeq(k, 1, n) : n \in 0..Len(k)} : k \in Keys}
    \cup {k \o VersionSuffix : k \in Keys}
    \cup UnknownModels
    \cup ObjectPrototypeKeys

InitMapper ==
    /\ InitLoaded
    /\ observe = FALSE
    /\ endpoint = NoEndpoint
    /\ req \in {[pc |-> "called", claudeModel |-> m, result |-> Undefined] :
                   m \in ModelNames}

mapModelReturns ==
    /\ req.pc = "called"
    /\ req' = [req EXCEPT !.pc = "returned",
                          !.result = mapClaudeModelToCopilot(req.claudeModel)]
    /\ UNCHANGED <<now, authVars, envVars, lastEvent, histVars, observe, endpoint, disk>>

NextMapper == mapModelReturns

SpecMapper == InitMapper /\ [][NextMapper]_vars

\* C21: the result of mapClaudeModelToCopilot is the value of the table key
\* equal to the name when there is one; otherwise the value of the first
\* key, in table order, that is a prefix of the name or has the name as a
\* prefix; otherwise 'claude-opus-4.5'.  The dated sonnet name gives the
\* sonnet id and an unknown name gives the default.
C21_ResolveByTable ==
    /\ req.pc = "returned"
          => LET name == req.claudeModel
                 byKey == {i \in 1..Len(CLAUDE_MODEL_MAPPINGS) :
                              CLAUDE_MODEL_MAPPINGS[i].key = name}
                 byPrefix == {i \in 1..Len(CLAUDE_MODEL_MAPPINGS) :
                                 \/ startsWith(name, CLAUDE_MODEL_MAPPINGS[i].key)
                                 \/ startsWith(CLAUDE_MODEL_MAPPINGS[i].key, name)}
             IN  IF byKey # {}
                 THEN \E i \in byKey : req.result = CLAUDE_MODEL_MAPPINGS[i].value
                 ELSE IF byPrefix # {}
                 THEN \E i \in byPrefix :
                         /\ \A j \in byPrefix : i <= j
                         /\ req.result = CLAUDE_MODEL_MAPPINGS[i].value
                 ELSE req.result = DefaultModel
    /\ mapClaudeModelToCopilot(<<"c", "l", "a", "u", "d", "e", "-", "s", "o", "n", "n", "e", "t", "-", "4", "-", "5", "-", "2", "0", "2", "5", "0", "5", "1", "4">>)
          = "claude-sonnet-4.5"
    /\ mapClaudeModelToCopilot(<<"t", "o", "t", "a", "l", "l", "y", "-", "u", "n", "k", "n", "o", "w", "n", "-", "m", "o", "d", "e", "l">>)
          = DefaultModel

\* ------------------------------------------------ the response converters
\* The answer of the chat endpoint, as far as the converters read it: the
\* choices, each with its text (message.content for the chat shape, text for
\* the completion shape) and its finish_reason.  A text is the sequence of
\* its characters.
MaxTextLen == 2

Characters == {"a", " "}
Whitespace == {" "}
Texts == UNION {[1..n -> Characters] : n \in 0..MaxTextLen}
FinishReasons == {"stop", "length", "content_filter", "tool_calls", "absent"}
Choices == [text : Texts, finish_reason : FinishReasons]
BackendResponses ==
    {<<>>} \cup {<<c>> : c \in Choices} \cup {<<c, d>> : c \in Choices, d \in Choices}

\* the stop_reason values of AnthropicMessageResponse (the cast of line 581)
StopReasons == {"end_turn", "max_tokens", "stop_sequence", "tool_use"}

TextBlock(text) == [type |-> "text", text |-> text]

\* String.prototype.trim
RECURSIVE trimStart(_)
trimStart(text) ==
    IF text # <<>> /\ Head(text) \in Whitespace THEN trimStart(Tail(text)) ELSE text
RECURSIVE trimEnd(_)
trimEnd(text) ==
    IF text # <<>> /\ text[Len(text)] \in Whitespace
    THEN trimEnd(SubSeq(text, 1, Len(text) - 1))
    ELSE text
trim(text) == trimEnd(trimStart(text))

\* choices.map((choice) => choice.text).join('')
RECURSIVE joinTexts(_)
joinTexts(choices) ==
    IF choices = <<>> THEN <<>> ELSE Head(choices).text \o joinTexts(Tail(choices))

\* lines 569-581: "choices[0] || {}", "message.content || ''", and the
\* finish_reason, which is passed on unless it is 'stop' or falsy
convertOpenAIToAnthropicResponse(choices) ==
    LET content == IF choices = <<>> THEN <<>> ELSE choices[1].text
        finish_reason == IF choices = <<>> THEN "absent" ELSE choices[1].finish_reason
    IN  [content |-> <<TextBlock(content)>>,
         stop_reason |-> IF finish_reason \in {"stop", "absent"} THEN "end_turn"
                         ELSE finish_reason]

\* lines 429-455: the texts of all choices are joined, a block is built
\* only for a non-empty text, and the block holds the trimmed text
convertCopilotToAnthropicResponse(choices) ==
    LET text == joinTexts(choices)
        finishReason == IF choices = <<>> THEN "absent" ELSE choices[1].finish_reason
    IN  [content |-> IF text = <<>> THEN <<>> ELSE <<TextBlock(trim(text))>>,
         stop_reason |-> IF finishReason = "length" THEN "max_tokens"
                         ELSE IF finishReason = "stop" THEN "stop_sequence"
                         ELSE "end_turn"]

\* no token file: the converters read neither credential
InitIdle ==
    /\ InitLoaded
    /\ githubFile = 0
    /\ copilotFile = NullToken
    /\ observe = FALSE
    /\ endpoint = NoEndpoint

NoResponse == [content |-> <<>>, stop_reason |-> "none"]

InitConvert ==
    /\ InitIdle
    /\ req \in [pc : {"called"}, converter : {"chat", "completion"},
                choices : BackendResponses, response : {NoResponse}]

convertOpenAIReturns ==
    /\ req.pc = "called"
    /\ req.converter = "chat"
    /\ req' = [req EXCEPT !.pc = "returned",
                          !.response = convertOpenAIToAnthropicResponse(req.choices)]
    /\ UNCHANGED <<now, authVars, envVars, lastEvent, histVars, observe, endpoint, disk>>

convertCopilotReturns ==
    /\ req.pc = "called"
    /\ req.converter = "completion"
    /\ req' = [req EXCEPT !.pc = "returned",
                          !.response = convertCopilotToAnthropicResponse(req.choices)]
    /\ UNCHANGED <<now, authVars, envVars, lastEvent, histVars, observe, endpoint, disk>>

NextConvert ==
    \/ convertOpenAIReturns
    \/ convertCopilotReturns

SpecConvert == InitConvert /\ [][NextConvert]_vars

\* C22: the converted response of a backend answer whose first completion
\* has a text holds one text block, and its text is the text of that
\* completion, character for character, whichever converter built it.
C22_TextIsFirstCompletion ==
    (/\ req.pc = "returned"
     /\ req.choices # <<>>
     /\ req.choices[1].text # <<>>)
        => req.response.content = <<TextBlock(req.choices[1].text)>>

\* C30: the stop reason of a converted response is max_tokens when the
\* first completion's finish reason is 'length' and end_turn for 'stop', for
\* any other finish reason and for none; it is always one of the outbound
\* stop reasons, whichever converter built it.
C30_FinishReasonMapping ==
    req.pc = "returned"
        => LET finish == IF req.choices = <<>> THEN "absent"
                         ELSE req.choices[1].finish_reason IN
               /\ req.response.stop_reason
                     = IF finish = "length" THEN "max_tokens" ELSE "end_turn"
               /\ req.response.stop_reason \in StopReasons

\* ------------------------------------------------ persistence and restart
\* The token files outlive the process.  Here the directory can stop being
\* writable and become writable again, the process can be restarted at any
\* moment, and the files the first run finds can be corrupt.  Only the steps
\* that write a file are followed: the refreshes are those a stored GitHub
\* token starts, and each of them is answered with a token body.
InitPersist ==
    /\ LoadedFrom(GithubFiles \cup {CorruptGithubFile},
                  CopilotFiles \cup {CorruptCopilotFile})
    /\ req = NoRequest
    /\ observe = FALSE
    /\ endpoint = NoEndpoint

\* writeFileSync and unlinkSync start to throw (disk full, directory gone
\* or read-only)
diskFails ==
    /\ disk.writable
    /\ disk' = [disk EXCEPT !.writable = FALSE]
    /\ lastEvent' = NoEvent
    /\ UNCHANGED <<now, authVars, envVars, histVars, observe, endpoint, req>>

diskRecovers ==
    /\ ~disk.writable
    /\ disk' = [disk EXCEPT !.writable = TRUE]
    /\ lastEvent' = NoEvent
    /\ UNCHANGED <<now, authVars, envVars, histVars, observe, endpoint, req>>

\* the process ends and is started again: the module variables are as
\* declared (lines 16-21), every pending promise is gone, and startServer
\* runs loadPersistedTokens() on the files as they are
restart ==
    /\ LET m == loadPersistedTokens(githubFile, copilotFile) IN
        /\ githubToken' = m.githubToken
        /\ copilotToken' = m.copilotToken
        /\ tokenRefreshInterval' = m.tokenRefreshInterval
    /\ pendingVerification' = 0
    /\ pendingAuth' = 0
    /\ xchg' = [e \in Exchanges |-> IF xchg[e] = "none" THEN "none" ELSE "done"]
    /\ own' = [e \in Exchanges |-> FALSE]
    /\ polls' = [e \in Exchanges |-> 0]
    /\ refreshes' = [o \in Owners |-> 0]
    /\ disk' = [DiskLoaded(githubFile, copilotFile) EXCEPT
                   !.writable = disk.writable,
                   !.failed = @ \/ disk.failed,
                   !.written = disk.written]
    /\ lastEvent' = Ev("restart", "loaded", "none")
    /\ UNCHANGED <<now, githubFile, copilotFile, histVars, observe, endpoint, req>>

NextPersist ==
    \/ initiateDeviceFlow
    \/ \E e \in Exchanges : onVerification(e)
    \/ \E e \in Exchanges : authThen(e)
    \/ pollCall
    \/ \E e \in Exchanges : pollToken(e)
    \/ \E body \in TokenBodies : pollRefreshed(body)
    \/ \E body \in TokenBodies : refreshResolved(body)
    \/ clearTokens
    \/ diskFails
    \/ diskRecovers
    \/ restart

SpecPersist == InitPersist /\ [][NextPersist]_vars

\* C23: when no read, write or unlink of a token file has failed, the
\* credentials in memory after a restart are the latest values that were
\* stored: the GitHub token of the last device-flow completion and the body
\* of the last refresh (or those the earlier run left, or none after
\* clearTokens).
C23_RestartRecoversLatestWrites ==
    lastEvent.op = "restart" /\ ~disk.failed
        => /\ githubToken = disk.written.github
           /\ copilotToken = disk.written.copilot

\* a run completed a device flow and a refresh, and was restarted
C23_Witness ==
    /\ lastEvent.op = "restart"
    /\ ~disk.failed
    /\ githubToken \in Exchanges
    /\ copilotToken \in TokenBodies
    /\ githubFile = githubToken
    /\ copilotFile = copilotToken

\* C24: a step in which the write of a token file fails still replaces the
\* credential in memory by the new value and ends as the same step with a
\* successful write does: a stored GitHub token clears the pending device
\* flow, arms the timer and starts a refresh; a stored Copilot token whose
\* expiry can be logged never makes the awaited refresh fail.
C24_FailedWriteOnlyLogged ==
    [][/\ (/\ disk'.lastFailed = "github"
           /\ disk.lastFailed # "github" \/ disk'.written # disk.written)
             => /\ githubToken' = disk'.written.github
                /\ githubFile' = githubFile
                /\ pendingAuth' = 0 /\ pendingVerification' = 0
                /\ tokenRefreshInterval'
                /\ \E o \in {"background", "poll"} : refreshes'[o] = refreshes[o] + 1
       /\ (/\ disk'.lastFailed = "copilot"
           /\ disk.lastFailed # "copilot" \/ disk'.written # disk.written)
             => /\ copilotToken' = disk'.written.copilot
                /\ copilotFile' = copilotFile
                /\ LogsExpiry(copilotToken') => lastEvent'.why # "refresh_failed"
                /\ lastEvent'.op = "poll" /\ LogsExpiry(copilotToken')
                      => lastEvent' = Ev("poll", "refreshed", "true")]_vars

\* a poll's refresh stored a token body the disk did not take, and the
\* poll returned true
C24_Witness ==
    /\ disk.lastFailed = "copilot"
    /\ lastEvent = Ev("poll", "refreshed", "true")
    /\ copilotToken # copilotFile
    /\ copilotToken \in TokenBodies

\* C25: after a start, a credential whose file is present and readable is
\* in memory, whatever the state of the other credential's file.
C25_RecordsLoadIndependently ==
    lastEvent.op = "restart"
        => /\ githubFile \notin {0, CorruptGithubFile} => githubToken = githubFile
           /\ copilotFile \notin {NullToken, CorruptCopilotFile}
                 => copilotToken = copilotFile

\* C26: once the connection of a streaming request has closed, no further
\* event is written for it and no further chat completion call is made.
C26_NoWriteAfterClose ==
    [][req.closed => /\ req'.events = req.events
                     /\ req'.calls = req.calls]_vars

\* ------------------------------------------ POST /v1/messages/count_tokens
\* The handler reads only lengths: a string is its length, a block is its
\* type and the length of its text.  system is absent, a string, or (outside
\* the request type) a list holding one text block; the content of a turn is
\* a string, a list of blocks, or a value of another type.
CountedLengths == {0, 1, 4}
CountedBlocks == [type : {"text", "image"}, len : CountedLengths \ {0}]
CountedContents ==
    [kind : {"string"}, len : CountedLengths, blocks : {<<>>}]
    \cup [kind : {"blocks"}, len : {0},
          blocks : UNION {[1..n -> CountedBlocks] : n \in 0..2}]
    \cup {[kind |-> "other", len |-> 0, blocks |-> <<>>]}
CountedSystems ==
    {[kind |-> "absent", len |-> 0]}
    \cup [kind : {"string", "blocks"}, len : CountedLengths]
CountedMessages ==
    {[kind |-> "absent", turns |-> <<>>]}
    \cup {[kind |-> "list", turns |-> t] :
             t \in UNION {[1..n -> CountedContents] : n \in 0..MaxTurns}}

\* JSON.stringify([{"type":"text","text":t}]).length for a text t of len
\* characters that need no escape
jsonLength(len) == len + 27

\* lines 361-363
systemChars(system) ==
    IF system.kind = "absent" \/ (system.kind = "string" /\ system.len = 0) THEN 0
    ELSE IF system.kind = "string" THEN system.len
    ELSE jsonLength(system.len)

\* lines 370-374: the inner loop over the blocks of one turn
RECURSIVE blockChars(_)
blockChars(blocks) ==
    IF blocks = <<>> THEN 0
    ELSE (IF Head(blocks).type = "text" /\ Head(blocks).len # 0
          THEN Head(blocks).len ELSE 0) + blockChars(Tail(blocks))

\* lines 365-377: the loop over the turns
RECURSIVE messageChars(_)
messageChars(turns) ==
    IF turns = <<>> THEN 0
    ELSE (IF Head(turns).kind = "string" THEN Head(turns).len
          ELSE IF Head(turns).kind = "blocks" THEN blockChars(Head(turns).blocks)
          ELSE 0) + messageChars(Tail(turns))

countTokens_Floor(system, messages) ==
    (systemChars(system)
     + (IF messages.kind = "list" THEN messageChars(messages.turns) ELSE 0)) \div 4

\* lines 359-380: Math.ceil(totalChars / 4)
countTokens(system, messages) ==
    LET totalChars == systemChars(system)
                      + (IF messages.kind = "list" THEN messageChars(messages.turns)
                         ELSE 0)
    IN  IF totalChars % 4 = 0 THEN totalChars \div 4 ELSE totalChars \div 4 + 1

\* a token that is valid is loaded: requireAuth lets the request through
InitCount ==
    /\ LoadedFrom({EarlierToken},
                  {b \in TokenBodies : isTokenValid(b, 0)})
    /\ observe = FALSE
    /\ endpoint = NoEndpoint
    /\ req \in [pc : {"arrived"}, system : CountedSystems,
                messages : CountedMessages, input_tokens : {0}]

countTokensResponds ==
    /\ req.pc = "arrived"
    /\ requireAuth(copilotToken, now) = "next"
    /\ req' = [req EXCEPT !.pc = "done",
                          !.input_tokens = countTokens(req.system, req.messages)]
    /\ UNCHANGED <<now, authVars, envVars, lastEvent, histVars, observe, endpoint, disk>>

SpecCount == InitCount /\ [][countTokensResponds]_vars

DefaultMaxTokens == 4096
DefaultTemperature == 7

BuildBlocks ==
    {[type |-> "text", text |-> <<"a">>], [type |-> "text", text |-> <<"b">>],
     [type |-> "image", text |-> <<>>]}
BuildContents ==
    {[kind |-> "string", text |-> <<"a">>, blocks |-> <<>>]}
    \cup [kind : {"blocks"}, text : {<<>>},
          blocks : UNION {[1..n -> BuildBlocks] : n \in 0..2}]
BuildRequests ==
    [system : {[kind |-> "absent", text |-> <<>>], [kind |-> "string", text |-> <<>>],
               [kind |-> "string", text |-> <<"s">>]},
     messages : UNION {[1..n -> [role : {"user", "assistant"}, content : BuildContents]] :
                          n \in 1..MaxTurns},
     max_tokens : {[kind |-> "absent", n |-> 0], [kind |-> "number", n |-> 1]},
     temperature : {[kind |-> "absent", tenths |-> 0], [kind |-> "number", tenths |-> 0],
                    [kind |-> "number", tenths |-> 10]},
     model : {<<"s", "o", "n", "n", "e", "t">>}]

\* Array.prototype.join('\n')
RECURSIVE joinLines(_)
joinLines(texts) ==
    IF texts = <<>> THEN <<>>
    ELSE IF Len(texts) = 1 THEN texts[1]
    ELSE texts[1] \o <<"\n">> \o joinLines(Tail(texts))

\* lines 401-415, called at line 518 for a content that is not a string
extractTextContent(content) ==
    IF content.kind = "string" THEN content.text
    ELSE LET textBlocks == SelectSeq(content.blocks, LAMBDA b : b.type = "text") IN
             joinLines([i \in 1..Len(textBlocks) |-> textBlocks[i].text])

completionBody_SystemLast(request) ==
    [model |-> mapClaudeModelToCopilot(request.model),
     messages |->
         [i \in 1..Len(request.messages) |->
             [role |-> request.messages[i].role,
              content |-> extractTextContent(request.messages[i].content)]]
         \o (IF request.system.kind = "string" /\ request.system.text # <<>>
             THEN <<[role |-> "system", content |-> request.system.text]>>
             ELSE <<>>),
     max_tokens |-> IF request.max_tokens.kind = "absent" \/ request.max_tokens.n = 0
                    THEN DefaultMaxTokens ELSE request.max_tokens.n,
     temperature |-> IF request.temperature.kind = "absent"
                     THEN DefaultTemperature ELSE request.temperature.tenths,
     stream |-> FALSE]

\* lines 480-528: "if (system)", the loop over the turns, "max_tokens ||
\* 4096", "temperature ?? 0.7"
completionBody(request) ==
    [model |-> mapClaudeModelToCopilot(request.model),
     messages |->
         (IF request.system.kind = "string" /\ request.system.text # <<>>
          THEN <<[role |-> "system", content |-> request.system.text]>>
          ELSE <<>>)
         \o [i \in 1..Len(request.messages) |->
                [role |-> IF request.messages[i].role = "assistant"
                          THEN "assistant" ELSE "user",
                 content |-> extractTextContent(request.messages[i].content)]],
     max_tokens |-> IF request.max_tokens.kind = "absent" \/ request.max_tokens.n = 0
                    THEN DefaultMaxTokens ELSE request.max_tokens.n,
     temperature |-> IF request.temperature.kind = "absent"
                     THEN DefaultTemperature ELSE request.temperature.tenths,
     stream |-> FALSE]

InitBuild ==
    /\ InitIdle
    /\ req \in [pc : {"called"}, request : BuildRequests, body : {<<>>}]

\* lines 480-540: the body is built and handed to fetch
bodyBuilt ==
    /\ req.pc = "called"
    /\ req' = [req EXCEPT !.pc = "sent", !.body = completionBody(req.request)]
    /\ UNCHANGED <<now, authVars, envVars, lastEvent, histVars, observe, endpoint, disk>>

SpecBuild == InitBuild /\ [][bodyBuilt]_vars

C29_FlattenConcatenates ==
    req.pc = "sent"
        => LET r == req.request
               lead == Len(req.body.messages) - Len(r.messages)
           IN  \A i \in 1..Len(r.messages) :
                   LET c == r.messages[i].content
                       textBlocks == SelectSeq(c.blocks, LAMBDA b : b.type = "text")
                   IN  req.body.messages[lead + i].content
                           = IF c.kind = "string" THEN c.text
                             ELSE Flatten([k \in 1..Len(textBlocks) |-> textBlocks[k].text])

\* ------------------------------------------- usage counters in the stream
\* The answer of the chat endpoint as handleAnthropicStreaming uses it: the
\* text and the finish_reason of the first choice and the two counters of
\* "usage", each of which the backend may omit.
TokenCounters ==
    {[kind |-> "absent", n |-> 0], [kind |-> "number", n |-> 0],
     [kind |-> "number", n |-> 3]}
StreamedAnswers ==
    [text : {Text(L) : L \in {0, 1, chunkSize + 1}},
     finish_reason : FinishReasons,
     prompt_tokens : TokenCounters,
     completion_tokens : TokenCounters]

\* lines 583-586: "usage.prompt_tokens || 0", "usage.completion_tokens || 0"
convertedUsage(data) ==
    [input_tokens |-> IF data.prompt_tokens.kind = "absent" THEN 0
                      ELSE data.prompt_tokens.n,
     output_tokens |-> IF data.completion_tokens.kind = "absent" THEN 0
                       ELSE data.completion_tokens.n]

\* lines 505-522
messageStart ==
    [type |-> "message_start",
     usage |-> [input_tokens |-> 0, output_tokens |-> 0]]

\* lines 577-587: "response.stop_reason || 'end_turn'" and
\* "response.usage?.output_tokens || outputTokens"
messageDelta(response, outputTokens) ==
    [type |-> "message_delta",
     stop_reason |-> response.stop_reason,
     output_tokens |-> IF response.usage.output_tokens # 0
                       THEN response.usage.output_tokens
                       ELSE outputTokens]

\* lines 549-597: one turn of the chunk loop, which adds
\* Math.ceil(chunk.length / 4) to outputTokens and waits 10 ms; past the
\* last chunk the closing events are written and the response is ended
streamLoop(r) ==
    LET chunks == StreamChunks(r.text, chunkSize) IN
        IF r.written < Len(chunks)
        THEN [r EXCEPT !.pc = "streaming",
                       !.events = Append(@, ContentDelta(chunks[r.written + 1])),
                       !.outputTokens = @ + Ceil(Len(chunks[r.written + 1]), 4),
                       !.written = @ + 1]
        ELSE [r EXCEPT !.pc = "done",
                       !.events = @ \o <<SseEvent("content_block_stop"),
                                         messageDelta(r.response, r.outputTokens),
                                         SseEvent("message_stop")>>]

InitStream ==
    /\ InitIdle
    /\ req = [pc |-> "arrived", events |-> <<>>, outputTokens |-> 0, written |-> 0,
              data |-> <<>>, response |-> <<>>, text |-> <<>>, outcome |-> "none"]

\* lines 484-540: the headers, the first two events, and the chat
\* completion call
streamingStarts ==
    /\ req.pc = "arrived"
    /\ req' = [req EXCEPT !.pc = "backend",
                          !.events = <<messageStart, SseEvent("content_block_start")>>]
    /\ UNCHANGED <<now, authVars, envVars, lastEvent, histVars, observe, endpoint, disk>>

\* lines 552-555 of auth-service.ts and 536-568 of the handler: the answer is
\* converted, the text blocks of the converted response are joined, and the
\* loop runs up to its first wait
completionReturns(data) ==
    /\ req.pc = "backend"
    /\ LET converted == convertOpenAIToAnthropicResponse(
                            <<[text |-> data.text, finish_reason |-> data.finish_reason]>>)
           response == [content |-> converted.content,
                        stop_reason |-> converted.stop_reason,
                        usage |-> convertedUsage(data)]
       IN  req' = streamLoop([req EXCEPT
                                 !.data = data,
                                 !.response = response,
                                 !.outcome = "ok",
                                 !.text = Flatten([i \in 1..Len(response.content) |->
                                                      response.content[i].text])])
    /\ UNCHANGED <<now, authVars, envVars, lastEvent, histVars, observe, endpoint, disk>>

\* lines 602-615: the chat completion throws and the error event is written
completionThrows ==
    /\ req.pc = "backend"
    /\ req' = [req EXCEPT !.pc = "done", !.outcome = "error",
                          !.events = Append(@, SseEvent("error"))]
    /\ UNCHANGED <<now, authVars, envVars, lastEvent, histVars, observe, endpoint, disk>>

\* line 567: the 10 ms wait is over
chunkDelayOver ==
    /\ req.pc = "streaming"
    /\ req' = streamLoop(req)
    /\ UNCHANGED <<now, authVars, envVars, lastEvent, histVars, observe, endpoint, disk>>

NextStream ==
    \/ streamingStarts
    \/ \E data \in StreamedAnswers : completionReturns(data)
    \/ completionThrows
    \/ chunkDelayOver

SpecStream == InitStream /\ [][NextStream]_vars

\* C31: the first event of every stream is the start event, with input and
\* output usage counts of zero; the message_delta event of a completed
\* stream carries the stop reason of the converted response and, as its
\* output-token count, the completion-token counter of the backend's
\* answer, or zero when the answer has no such counter.
C31_StreamUsageCounts ==
    /\ req.pc # "arrived"
          => /\ req.events[1].type = "message_start"
             /\ req.events[1].usage = [input_tokens |-> 0, output_tokens |-> 0]
    /\ req.pc = "done" /\ req.outcome = "ok"
          => LET delta == req.events[Len(req.events) - 1] IN
                 /\ delta.type = "message_delta"
                 /\ delta.stop_reason = req.response.stop_reason
                 /\ delta.output_tokens = req.response.usage.output_tokens
                 /\ delta.output_tokens
                       = IF req.data.completion_tokens.kind = "absent" THEN 0
                         ELSE req.data.completion_tokens.n

\* ------------------------------------------- converting an answer twice
\* uuidv4() returns a fresh random identifier at each call: here any of two.
Uuids == {"uuid-1", "uuid-2"}
NoId == "absent"
BackendIds == {NoId, "cmpl-1"}

\* line 576: "id: `msg_${uuidv4().replace(/-/g, '').substring(0, 24)}`";
\* data.id is not read
openAIResponseId(id, uuid) == <<"msg_", uuid>>

\* line 458: "id: `msg_${copilotResponse.id || uuidv4()}`"
copilotResponseId(id, uuid) == IF id # NoId THEN <<"msg_", id>> ELSE <<"msg_", uuid>>

InitTwice ==
    /\ InitIdle
    /\ req \in [pc : {"called"}, converter : {"chat", "completion"},
                id : BackendIds,
                choices : {<<>>} \cup {<<c>> : c \in Choices},
                responses : {<<>>}]

\* lines 565-588, called with the same answer for the first or the second
\* time
convertOpenAIAgain(uuid) ==
    /\ req.converter = "chat"
    /\ Len(req.responses) < 2
    /\ req' = [req EXCEPT
                  !.pc = "returned",
                  !.responses = Append(@, [id |-> openAIResponseId(req.id, uuid),
                                           message |-> convertOpenAIToAnthropicResponse(req.choices)])]
    /\ UNCHANGED <<now, authVars, envVars, lastEvent, histVars, observe, endpoint, disk>>

\* lines 424-467, called with the same answer for the first or the second
\* time
convertCopilotAgain(uuid) ==
    /\ req.converter = "completion"
    /\ Len(req.responses) < 2
    /\ req' = [req EXCEPT
                  !.pc = "returned",
                  !.responses = Append(@, [id |-> copilotResponseId(req.id, uuid),
                                           message |-> convertCopilotToAnthropicResponse(req.choices)])]
    /\ UNCHANGED <<now, authVars, envVars, lastEvent, histVars, observe, endpoint, disk>>

NextTwice ==
    \/ \E uuid \in Uuids : convertOpenAIAgain(uuid)
    \/ \E uuid \in Uuids : convertCopilotAgain(uuid)

SpecTwice == InitTwice /\ [][NextTwice]_vars

\* C32: two conversions of the same backend answer by the same converter
\* give the same content and stop reason, and the same response identifier
\* whenever the answer carried an identifier.
C32_ConversionIsPure ==
    Len(req.responses) = 2
        => /\ req.responses[1].message = req.responses[2].message
           /\ req.id # NoId => req.responses[1].id = req.responses[2].id

\* ----------------------------------------- the pair of pending variables
\* C33: whenever a pendingVerification is stored, the stored pendingAuth is
\* the handle of the same exchange; and while the handle of a later
\* exchange is stored, the verification callback and the failure of an
\* earlier exchange change neither pendingAuth nor pendingVerification.
C33_PendingPairOfOneExchange ==
    /\ [](pendingVerification # 0 => pendingAuth = pendingVerification)
    /\ [][\A f \in Exchanges :
             /\ pendingAuth # 0
             /\ f < pendingAuth
             /\ onVerification(f) \/ authCatch(f)
             => UNCHANGED <<pendingVerification, pendingAuth>>]_vars

\* ------------------------------------------------- the models that are listed
\* AVAILABLE_CLAUDE_MODELS, from which getAvailableModels builds its list:
\* the id and the copilot_model of each entry
AVAILABLE_CLAUDE_MODELS == <<
    [id |-> <<"c", "l", "a", "u", "d", "e", "-", "o", "p", "u", "s", "-", "4", "-", "5", "-", "2", "0", "2", "5", "0", "5", "1", "4">>,
     copilot_model |-> "claude-opus-4.5"],
    [id |-> <<"c", "l", "a", "u", "d", "e", "-", "s", "o", "n", "n", "e", "t", "-", "4", "-", "5", "-", "2", "0", "2", "5", "0", "5", "1", "4">>,
     copilot_model |-> "claude-sonnet-4.5"],
    [id |-> <<"c", "l", "a", "u", "d", "e", "-", "h", "a", "i", "k", "u", "-", "4", "-", "5", "-", "2", "0", "2", "5", "0", "5", "1", "4">>,
     copilot_model |-> "claude-haiku-4.5"] >>

\* the backend model ids: the values of the table, the default among them
CopilotModels == {CLAUDE_MODEL_MAPPINGS[i].value : i \in 1..Len(CLAUDE_MODEL_MAPPINGS)}

\* the characters of a backend model id
CharactersOf(value) ==
    CASE value = "claude-opus-4.5" -> <<"c", "l", "a", "u", "d", "e", "-", "o", "p", "u", "s", "-", "4", ".", "5">>
      [] value = "claude-sonnet-4.5" -> <<"c", "l", "a", "u", "d", "e", "-", "s", "o", "n", "n", "e", "t", "-", "4", ".", "5">>
      [] value = "claude-haiku-4.5" -> <<"c", "l", "a", "u", "d", "e", "-", "h", "a", "i", "k", "u", "-", "4", ".", "5">>

\* C34: the result of mapClaudeModelToCopilot is, for every name, one of
\* the values of the table, and mapping that result again gives the same
\* result; the id of every listed model is mapped to the copilot_model of
\* its entry.
C34_ResolveIsIdempotent ==
    req.pc = "returned"
        => /\ req.result \in CopilotModels
           /\ mapClaudeModelToCopilot(CharactersOf(req.result)) = req.result
           /\ DefaultModel \in CopilotModels
           /\ \A i \in 1..Len(AVAILABLE_CLAUDE_MODELS) :
                 mapClaudeModelToCopilot(AVAILABLE_CLAUDE_MODELS[i].id)
                     = AVAILABLE_CLAUDE_MODELS[i].copilot_model

====
